---- MODULE Spec2Model ----
(***************************************************************************)
(* TwitterVerification: a claim registry on top of an optimistic oracle.   *)
(*                                                                         *)
(* The registry contract (src/unnamed/part_000, lines 45-221) is modelled  *)
(* transaction by transaction.  A transaction either commits all of its    *)
(* writes, logs and transfers or reverts and leaves the ledger as it was.  *)
(* The variable tx is the receipt of the last transaction: what was        *)
(* called, how it ended, what it returned, the logs it emitted, the value  *)
(* it moved and what the oracle answered inside it; sender is msg.sender,  *)
(* which only submitClaim reads.  Five variables keep the history the      *)
(* ledger itself forgets: returned, the identifiers that successful        *)
(* submitClaim calls have returned, rewards, the number of reward          *)
(* transfers made for each identifier, submitter, the account whose        *)
(* submitClaim call returned an identifier, deposits, the sum of the       *)
(* values the registry has received, and emitted, the events committed     *)
(* for each identifier.                                                    *)
(*                                                                         *)
(* The oracle (IOptimisticOracleV3, an external contract reached through   *)
(* the instance declared at lines 57-58) is the environment.  It is        *)
(* modelled from its description in the specification: an assertion call   *)
(* fails or returns a fresh non-zero identifier; settlement finalizes the  *)
(* truth value of an assertion once, and this value is what every later    *)
(* read returns.  Anyone may settle an assertion on the oracle directly.   *)
(*                                                                         *)
(* Callers are externally owned accounts (the client sends every           *)
(* transaction through a wallet signer), so the transfer of line 141       *)
(* cannot be refused by its recipient.                                     *)
(*                                                                         *)
(* Amounts are counted in units of 0.001 ether.                            *)
(*                                                                         *)
(* The client (src/frontend/src/App.js, lines 20-542) is modelled handler  *)
(* by handler under a specification of its own, ClientSpec.  ui holds the  *)
(* component's state hooks.  A handler is an async function: a click runs  *)
(* it up to its first await, and each later step of ClientSpec is the      *)
(* return of one awaited call, followed by the code up to the next await.  *)
(* tasks holds the handlers that are waiting at an await, with the values  *)
(* their closures captured, and ev tells what the last step was.  The      *)
(* wallet, the node and the chain are the environment: every awaited call  *)
(* returns one of the answers it can give, chosen freely.  Under Spec the  *)
(* client stays as the page load leaves it, and under ClientSpec the       *)
(* registry stays as deployed.                                             *)
(***************************************************************************)
EXTENDS Integers, Sequences, FiniteSets, TLC

\* ------------------------------------------------------------------ bounds
\* Last block timestamp of a behaviour (timestamps are 0..MaxTime).
MaxTime == 1

\* ------------------------------------------------------- program constants
\* REWARD_AMOUNT = 0.01 ether, in units of 0.001 ether.
REWARD_AMOUNT == 10

\* bytes32(0): the key no assertion has, and the default of Claim.assertionId.
ZeroId == 0
\* address(0): the default of Claim.claimer, the existence sentinel.
ZeroAddress == "0x0"
\* address(this).
Registry == "registry"

\* The accounts that send transactions.
Accounts == {"alice", "bob"}
\* What a submitter can type: <<twitterHandle, tweetText>>.
Inputs == { <<"drextron", "Life is short, test in prod">>,
            <<"umaprotocol", "gm">> }
\* Values a funding transfer carries.
DepositAmounts == { REWARD_AMOUNT \div 2, REWARD_AMOUNT }
\* The registry balance is kept at or under this by the funding guard.
MaxBalance == 2 * REWARD_AMOUNT
\* The oracle's default liveness (challenge window), in timestamp units.
DefaultLiveness == 1

\* The non-zero identifiers the oracle can hand out.
AssertionIds == {1, 2}
Bytes32 == {ZeroId} \cup AssertionIds

VARIABLES
    claims,     \* mapping(bytes32 => Claim)
    balance,    \* address(this).balance
    oracle,     \* the oracle's assertions, by identifier
    now,        \* block.timestamp
    tx,         \* receipt of the last transaction
    returned,   \* history: identifiers returned by successful submitClaim calls
    rewards,    \* history: reward transfers made, by identifier
    submitter,  \* history: msg.sender of the submitClaim that returned an identifier
    deposits,   \* history: the sum of the values receive() has accepted
    emitted     \* history: the events committed so far, by identifier

registryVars ==
    <<claims, balance, oracle, now, tx, returned, rewards, submitter, deposits,
      emitted>>

VARIABLES
    ui,         \* the state hooks of App (lines 21-32)
    tasks,      \* the handlers waiting at an await, by slot
    ev,         \* the last client step
    clicks      \* the button clicks a behaviour has left

clientVars == <<ui, tasks, ev, clicks>>

vars == <<registryVars, clientVars>>

\* ------------------------------------------------------- client: bounds
\* Handlers that can be waiting at an await at the same time.
MaxTasks == 2
\* Logs in a transaction receipt.
MaxLogs == 2
\* Buttons clicked in a behaviour of ClientSpec; a behaviour of RaceSpec has
\* as many clicks as handlers can wait.
MaxClicks == 1

TaskIds == 1..MaxTasks

\* --------------------------------------------------- client: constants
\* JavaScript's null and undefined; '' is the empty string.
Null == "null"
Undefined == "undefined"

\* The texts passed to setError.
MsgSepolia         == "Please connect to Sepolia testnet"
MsgConnectFailed   == "Failed to connect wallet: "
MsgNoMetaMask      == "MetaMask not detected. Please install MetaMask."
MsgBothFields      == "Please enter both Twitter handle and tweet text"
MsgSubmitError     == "Error submitting claim: "
MsgEnterTxHash     == "Please enter a transaction hash"
MsgTxNotFound      == "Transaction not found or not confirmed yet"
MsgNoIdInLogs      == "Could not find assertion ID in transaction logs"
MsgFindError       == "Error finding assertion ID: "
MsgEnterId         == "Please enter an assertion ID"
MsgCheckError      == "Error checking claim: "
MsgTryLater ==
    "This claim cannot be settled yet. The UMA challenge period may not have ended. Please wait a few more minutes and try again."
MsgAlreadyResolved ==
    "This claim has already been resolved. Please refresh the status to see the latest information."
MsgSettleError     == "Error settling claim: "

\* The statuses passed to setResult.
ResSubmitted == "Claim submitted"
ResProcessed == "Claim processed"
ResProcessedNoId == "Claim processed, assertion ID not extracted"
ResFound     == "Found assertion ID"
ResInitiated == "Claim settlement initiated"
ResSettled   == "Claim settled"

\* useState's initial values (lines 21-32); claimStatus and assertionDetails
\* start as null, written here as records that say nothing was fetched.  The
\* handle is a sequence of characters, '' being <<>>; the other fields are
\* strings no handler looks into.
NoStatus == [ fetched |-> FALSE, resolved |-> FALSE, rewarded |-> FALSE ]
FreshUi ==
    [ twitterHandle |-> <<>>, tweetText |-> "", loading |-> FALSE,
      result |-> Null, error |-> "", walletConnected |-> FALSE,
      contractBalance |-> Null, assertionId |-> "", claimStatus |-> NoStatus,
      assertionDetails |-> Null, canSettle |-> FALSE, txHash |-> "" ]

\* A slot with no handler in it, and the handler a slot holds otherwise: the
\* function that was called, the await it is at, the identifier its closure
\* uses, for the status check made inside another handler the branch that
\* called it, and for submitClaim the <<twitterHandle, tweetText>> its
\* closure holds.
NoTask == [ fn |-> "none", pc |-> "idle", id |-> "", branch |-> "none",
            form |-> <<>> ]
Task(fn, pc, id, branch) == [NoTask EXCEPT !.fn = fn, !.pc = pc, !.id = id,
                                           !.branch = branch]

\* Lines 363-367: the effect run once on load calls connectWallet.
OnLoad == [ t \in TaskIds |-> IF t = 1 THEN Task("useEffect", "connect", "", "none")
                                       ELSE NoTask ]

\* args is <<>> but in the step that calls contract.submitClaim (line 97),
\* where it holds the arguments passed.
NoEv == [ fn |-> "none", at |-> "none", task |-> 0, reply |-> "none",
          logs |-> <<>>, found |-> Null, args |-> <<>> ]
Ev(fn, at, task, reply) == [NoEv EXCEPT !.fn = fn, !.at = at, !.task = task,
                                        !.reply = reply]

\* ------------------------------------------------------------- data model
\* The value of claims[id] for a key never written (Solidity's default).
EmptyClaim ==
    [ assertedClaim |-> <<>>,
      claimer       |-> ZeroAddress,
      twitterHandle |-> "",
      tweetText     |-> "",
      assertionId   |-> ZeroId,
      isResolved    |-> FALSE,
      isRewarded    |-> FALSE ]

\* The oracle's record of an identifier it never handed out.
EmptyAssertion ==
    [ asserter             |-> ZeroAddress,
      claim                |-> <<>>,
      settled              |-> FALSE,
      settlementResolution |-> FALSE,
      assertionTime        |-> 0,
      expirationTime       |-> 0 ]

\* abi.encodePacked of the sentence: its parts, in order.
AssertedClaim(twitterHandle, tweetText, timestamp) ==
    << "Twitter user @", twitterHandle,
       " posted a tweet with the exact text: '", tweetText,
       "' as of timestamp ", timestamp >>

ClaimSubmitted(assertionId, claimer, twitterHandle, tweetText) ==
    [ event |-> "ClaimSubmitted", assertionId |-> assertionId, claimer |-> claimer,
      twitterHandle |-> twitterHandle, tweetText |-> tweetText ]

\* Line 132 emitting false whatever the result.
ClaimResolvedUntruthful(assertionId, truthful) ==
    [ event |-> "ClaimResolved", assertionId |-> assertionId, truthful |-> FALSE ]

ClaimResolved(assertionId, truthful) ==
    [ event |-> "ClaimResolved", assertionId |-> assertionId, truthful |-> truthful ]

RewardPaid(assertionId, claimer, amount) ==
    [ event |-> "RewardPaid", assertionId |-> assertionId, claimer |-> claimer,
      amount |-> amount ]

NoTransfer == [ to |-> ZeroAddress, amount |-> 0 ]

\* The receipt before any transaction.
NoTx ==
    [ op |-> "none", sender |-> ZeroAddress, id |-> ZeroId, status |-> "ok",
      ret |-> FALSE, retId |-> ZeroId, oracleReply |-> "not called", logs |-> <<>>,
      transfer |-> NoTransfer ]


\* --------------------------------------------------------------- the oracle
\* What one call of assertTruthWithDefaults can do: fail, or hand out an
\* identifier that is non-zero and that no earlier assertion has.
AssertChoices(orc) ==
    {ZeroId} \cup { id \in AssertionIds : orc[id].asserter = ZeroAddress }

\* oov3.assertTruthWithDefaults(claim, asserter) at time t; choice = ZeroId is
\* a failed call, any other choice is the identifier handed out.
assertTruthWithDefaults(orc, claim, asserter, t, choice) ==
    IF choice = ZeroId
    THEN [ ok |-> FALSE, assertionId |-> ZeroId, oracle |-> orc ]
    ELSE [ ok |-> TRUE, assertionId |-> choice,
           oracle |-> [orc EXCEPT ![choice] =
                         [ asserter             |-> asserter,
                           claim                |-> claim,
                           settled              |-> FALSE,
                           settlementResolution |-> FALSE,
                           assertionTime        |-> t,
                           expirationTime       |-> t + DefaultLiveness ]] ]

\* How a settlement of a not yet settled assertion can end.
SettleChoices == {"revert", "true", "false"}

\* oov3.settleAndGetAssertionResult(id): the value of a settled assertion is
\* final; an open one is settled to the adjudicated value, or the call fails
\* (challenge window still running, dispute not yet resolved).
oracleSettleAndGetAssertionResult(orc, id, choice) ==
    IF orc[id].asserter = ZeroAddress
    THEN [ ok |-> FALSE, result |-> FALSE, oracle |-> orc ]
    ELSE IF orc[id].settled
    THEN [ ok |-> TRUE, result |-> orc[id].settlementResolution, oracle |-> orc ]
    ELSE IF choice = "revert"
    THEN [ ok |-> FALSE, result |-> FALSE, oracle |-> orc ]
    ELSE [ ok |-> TRUE, result |-> (choice = "true"),
           oracle |-> [orc EXCEPT ![id].settled = TRUE,
                                  ![id].settlementResolution = (choice = "true")] ]

\* oov3.getAssertionResult(id) and oov3.getAssertion(id).
oracleGetAssertionResult(orc, id) == orc[id].settlementResolution
oracleGetAssertion(orc, id) == orc[id]

\* ------------------------------------------------------------- the registry
\* The outcome of a call: how it ended, what it returned, and the ledger,
\* logs and transfer it would commit.
Outcome(status, ret, retId, cs, bal, orc, logs, transfer, oracleReply) ==
    [ status |-> status, ret |-> ret, retId |-> retId, claims |-> cs,
      balance |-> bal, oracle |-> orc, logs |-> logs, transfer |-> transfer,
      oracleReply |-> oracleReply ]

\* Lines 103-111: the record stored by submitClaim.
NewClaim(assertedClaim, sender, twitterHandle, tweetText, assertionId) ==
    [ assertedClaim |-> assertedClaim,
      claimer       |-> sender,
      twitterHandle |-> twitterHandle,
      tweetText     |-> tweetText,
      assertionId   |-> assertionId,
      isResolved    |-> FALSE,
      isRewarded    |-> FALSE ]

\* Line 103 writing under the default key instead of assertionId.
StoreClaimAtZero(cs, assertionId, claim) == [cs EXCEPT ![ZeroId] = claim]

\* Line 103 writing under one fixed key instead of assertionId.
StoreClaimAtFirst(cs, assertionId, claim) == [cs EXCEPT ![1] = claim]

\* Line 103: claims[assertionId] = Claim({...}).
StoreClaim(cs, assertionId, claim) == [cs EXCEPT ![assertionId] = claim]

\* Line 115 left out: the declared return value keeps its default.
submitClaimReturnDefault(assertionId) == ZeroId

\* Line 115: return assertionId.
submitClaimReturn(assertionId) == assertionId

\* Line 100 as a call whose failure is not looked at.
assertFailedIgnored(a) == FALSE

\* Line 100: a failed external call reverts its caller.
assertFailed(a) == ~a.ok

\* Lines 87-116.
submitClaimCall(cs, bal, orc, t, sender, twitterHandle, tweetText, choice) ==
    LET assertedClaim == AssertedClaim(twitterHandle, tweetText, t)
        a == assertTruthWithDefaults(orc, assertedClaim, Registry, t, choice)
    IN  IF assertFailed(a)
        THEN Outcome("Oracle call failed", FALSE, ZeroId, cs, bal, orc, <<>>,
                     NoTransfer, "failed")
        ELSE Outcome("ok", FALSE, submitClaimReturn(a.assertionId),
                     StoreClaim(cs, a.assertionId,
                                NewClaim(assertedClaim, sender, twitterHandle,
                                         tweetText, a.assertionId)),
                     bal, a.oracle,
                     << ClaimSubmitted(a.assertionId, sender, twitterHandle, tweetText) >>,
                     NoTransfer, IF a.ok THEN "assertionId" ELSE "failed")

\* The existence test left out: every key passes.
ClaimExistsAlways(c) == TRUE

\* Line 124 and line 204: the existence test.
ClaimExists(c) == c.claimer # ZeroAddress

\* Line 130 left out.
MarkResolvedSkipped(c) == c

\* Line 130.
MarkResolved(c) == [c EXCEPT !.isResolved = TRUE]

\* Line 135 without its isRewarded test.
RewardDueUnguarded(c, result) == result

\* Line 135 without its result test.
RewardDueAnyResult(c, result) == ~c.isRewarded

\* Line 135: the condition under which the reward is sent.
RewardDue(c, result) == result /\ ~c.isRewarded

\* Line 137 with > for >=.
EnoughBalanceStrict(bal) == bal > REWARD_AMOUNT

\* Line 137.
EnoughBalance(bal) == bal >= REWARD_AMOUNT

\* Line 140 left out.
MarkRewardedSkipped(c) == c

\* Line 140.
MarkRewarded(c) == [c EXCEPT !.isRewarded = TRUE]

\* Line 141 sending half of the reward.
RewardTransferHalf(c) == [ to |-> c.claimer, amount |-> REWARD_AMOUNT \div 2 ]

\* Line 141 paying the registry's own address, the one line 100 passes on.
RewardTransferToSelf(c) == [ to |-> Registry, amount |-> REWARD_AMOUNT ]

\* Line 141: payable(claims[assertionId].claimer).transfer(REWARD_AMOUNT).
RewardTransfer(c) == [ to |-> c.claimer, amount |-> REWARD_AMOUNT ]

\* Lines 122-147.
settleAndGetAssertionResultCall(cs, bal, orc, id, choice) ==
    IF ~ClaimExists(cs[id])
    THEN Outcome("Claim does not exist", FALSE, ZeroId, cs, bal, orc, <<>>,
                 NoTransfer, "not called")
    ELSE
    LET s == oracleSettleAndGetAssertionResult(orc, id, choice) IN
    IF ~s.ok
    THEN Outcome("Oracle call failed", FALSE, ZeroId, cs, bal, orc, <<>>,
                 NoTransfer, "failed")
    ELSE
    LET result == s.result
        reply == IF result THEN "true" ELSE "false"
        cs1 == [cs EXCEPT ![id] = MarkResolved(cs[id])]
        logs1 == << ClaimResolved(id, result) >>
    IN  IF RewardDue(cs1[id], result)
        THEN IF ~EnoughBalance(bal)
             THEN Outcome("Insufficient contract balance", FALSE, ZeroId, cs1, bal,
                          s.oracle, logs1, NoTransfer, reply)
             ELSE LET cs2 == [cs1 EXCEPT ![id] = MarkRewarded(cs1[id])]
                      pay == RewardTransfer(cs2[id])
                  IN  Outcome("ok", result, ZeroId, cs2, bal - pay.amount, s.oracle,
                              Append(logs1, RewardPaid(id, cs2[id].claimer, REWARD_AMOUNT)),
                              pay, reply)
        ELSE Outcome("ok", result, ZeroId, cs1, bal, s.oracle, logs1, NoTransfer, reply)

\* Lines 153-155.
getAssertionResult(orc, id) == oracleGetAssertionResult(orc, id)

\* Lines 161-167.
getAssertion(orc, id) == oracleGetAssertion(orc, id)

\* Lines 173-188.
getClaimDetails(cs, id) ==
    LET claim == cs[id]
    IN  << claim.claimer, claim.twitterHandle, claim.tweetText,
           claim.isResolved, claim.isRewarded >>

\* Line 195 with || for &&.
isClaimVerifiedEither(cs, id) == cs[id].isResolved \/ cs[id].isRewarded

\* Lines 194-196.
isClaimVerified(cs, id) == cs[id].isResolved /\ cs[id].isRewarded

\* Lines 202-216 with line 215 not reading assertion.settled.
canBeSettledSettledUnread(cs, orc, t, id) ==
    IF ~ClaimExists(cs[id]) THEN FALSE
    ELSE IF cs[id].isResolved THEN FALSE
    ELSE LET assertion == oracleGetAssertion(orc, id)
         IN  t >= assertion.expirationTime

\* Lines 202-216.
canBeSettled(cs, orc, t, id) ==
    IF ~ClaimExists(cs[id]) THEN FALSE
    ELSE IF cs[id].isResolved THEN FALSE
    ELSE LET assertion == oracleGetAssertion(orc, id)
         IN  ~assertion.settled /\ t >= assertion.expirationTime

\* A ledger without rollback: the writes made before a failed require stay.
CommittedAlways(o) == TRUE

\* A transaction is atomic: a failed require reverts every write, log and
\* transfer made before it, and only the receipt tells that it was sent.
Committed(o) == o.status = "ok"

\* The event history after a transaction's logs are committed: whether
\* ClaimSubmitted has been emitted for an identifier, and how many RewardPaid.
Emit(em, logs) ==
    [ id \in Bytes32 |->
        [ submitted |-> em[id].submitted
                        \/ \E i \in 1..Len(logs) :
                              /\ logs[i].event = "ClaimSubmitted"
                              /\ logs[i].assertionId = id,
          paid |-> em[id].paid
                   + Cardinality({ i \in 1..Len(logs) :
                                     /\ logs[i].event = "RewardPaid"
                                     /\ logs[i].assertionId = id }) ] ]

Execute(op, sender, id, o) ==
    /\ claims'  = IF Committed(o) THEN o.claims  ELSE claims
    /\ balance' = IF Committed(o) THEN o.balance ELSE balance
    /\ oracle'  = IF Committed(o) THEN o.oracle  ELSE oracle
    /\ tx' = [ op |-> op, sender |-> sender, id |-> id, status |-> o.status,
               ret |-> o.ret,
               retId |-> IF Committed(o) THEN o.retId ELSE ZeroId,
               oracleReply |-> o.oracleReply,
               logs |-> IF Committed(o) THEN o.logs ELSE <<>>,
               transfer |-> IF Committed(o) THEN o.transfer ELSE NoTransfer ]
    /\ returned' = IF Committed(o) /\ op = "submitClaim"
                   THEN returned \cup {o.retId} ELSE returned
    /\ rewards' = IF Committed(o) /\ o.transfer # NoTransfer
                  THEN [rewards EXCEPT ![id] = @ + 1] ELSE rewards
    /\ submitter' = IF Committed(o) /\ op = "submitClaim"
                    THEN [submitter EXCEPT ![o.retId] = sender] ELSE submitter
    /\ emitted' = IF Committed(o) THEN Emit(emitted, o.logs) ELSE emitted
    /\ UNCHANGED <<now, deposits, clientVars>>

\* ----------------------------------------------------------------- actions
\* The registry as deployed and the page as loaded, with n clicks to come.
Loaded(n) ==
    /\ claims = [id \in Bytes32 |-> EmptyClaim]
    /\ balance = 0
    /\ deposits = 0
    /\ oracle = [id \in Bytes32 |-> EmptyAssertion]
    /\ now = 0
    /\ tx = NoTx
    /\ returned = {}
    /\ rewards = [id \in Bytes32 |-> 0]
    /\ submitter = [id \in Bytes32 |-> ZeroAddress]
    /\ emitted = [id \in Bytes32 |-> [ submitted |-> FALSE, paid |-> 0 ]]
    /\ ui = FreshUi
    /\ tasks = OnLoad
    /\ ev = NoEv
    /\ clicks = n

Init == Loaded(MaxClicks)

submitClaim ==
    \E sender \in Accounts, input \in Inputs, choice \in AssertChoices(oracle) :
        Execute("submitClaim", sender, ZeroId,
                submitClaimCall(claims, balance, oracle, now, sender,
                                input[1], input[2], choice))

\* Any account may call it: lines 122-147 do not read msg.sender.
settleAndGetAssertionResult ==
    \E sender \in Accounts, id \in Bytes32, choice \in SettleChoices :
        Execute("settleAndGetAssertionResult", sender, id,
                settleAndGetAssertionResultCall(claims, balance, oracle, id, choice))

\* Line 220: receive() external payable {}.
receive ==
    \E amount \in DepositAmounts :
        /\ balance + amount <= MaxBalance
        /\ balance' = balance + amount
        /\ deposits' = deposits + amount
        /\ tx' = [NoTx EXCEPT !.op = "receive"]
        /\ UNCHANGED <<claims, oracle, now, returned, rewards, submitter, emitted,
                       clientVars>>

\* Somebody settles an assertion on the oracle itself, not through the registry.
oracleSettleAssertion ==
    \E id \in AssertionIds, choice \in {"true", "false"} :
        /\ oracle[id].asserter # ZeroAddress
        /\ ~oracle[id].settled
        /\ oracle' = oracleSettleAndGetAssertionResult(oracle, id, choice).oracle
        /\ tx' = [NoTx EXCEPT !.op = "oracle.settleAssertion", !.id = id]
        /\ UNCHANGED <<claims, balance, now, returned, rewards, submitter, deposits,
                       emitted, clientVars>>

\* A later block.
Tick ==
    /\ now < MaxTime
    /\ now' = now + 1
    /\ tx' = [NoTx EXCEPT !.op = "block"]
    /\ UNCHANGED <<claims, balance, oracle, returned, rewards, submitter, deposits,
                   emitted, clientVars>>

Next ==
    \/ submitClaim
    \/ settleAndGetAssertionResult
    \/ receive
    \/ oracleSettleAssertion
    \/ Tick

Spec == Init /\ [][Next]_vars

\* =============================================================== the client
\* ---------------------------------------------------------- what is typed
\* The form as the user can fill it (the onChange handlers of lines 401, 412,
\* 440 and 463): <<twitterHandle, tweetText, txHash, assertionId>>.
Forms ==
    { << <<"@", "n", "a", "m", "e">>, "gm", "0xabc", "0x01" >>,
      << <<>>, "gm", "0xabc", "0x01" >>,
      << <<"@", "n", "a", "m", "e">>, "", "", "" >>,
      << <<"n", "a", "m", "e">>, "gm", "", "" >>,
      << <<"@">>, "gm", "", "" >>,
      << <<"@", "@", "n", "a", "m", "e">>, "gm", "", "" >> }

\* The hash of a transaction the client has sent.
SentTxHash == "0xabc"

\* ------------------------------------------------- what the chain answers
\* Topic 0 of the registry's ClaimSubmitted event (line 14) and the string
\* line 171 hashes for the oracle's AssertionMade event.
ClaimSubmittedTopic == "ClaimSubmitted(bytes32,address,string,string)"
AssertionMadeTopic ==
    "AssertionMade(bytes32,bytes32,address,address,address,address,uint64,address,uint256,bytes32,bytes)"

\* The identifiers logs carry.
LogIds == {"0x01", "0x02"}

\* The logs a receipt can hold: ClaimSubmitted with its two indexed
\* arguments, AssertionMade with or without a topic 1, another contract's
\* event, and a log with no topics.
Logs ==
    { [topics |-> <<ClaimSubmittedTopic, id, "0xclaimer">>] : id \in LogIds }
    \cup { [topics |-> <<AssertionMadeTopic, id>>] : id \in LogIds }
    \cup { [topics |-> <<AssertionMadeTopic>>],
           [topics |-> <<"Transfer(address,address,uint256)">>],
           [topics |-> <<>>] }

\* receipt.logs.
Receipts == UNION { [1..n -> Logs] : n \in 0..MaxLogs }

\* What getClaimDetails can return.
ClaimDetails ==
    { [fetched |-> TRUE, resolved |-> FALSE, rewarded |-> FALSE],
      [fetched |-> TRUE, resolved |-> TRUE, rewarded |-> TRUE] }

\* How connectWallet's requests (lines 36-44) can end.
WalletReplies == {"ok", "no wallet", "rejected", "wrong network"}

\* The error texts a failed settlement can carry (lines 349-355).
SettleFailures == {"challenge period", "already resolved", "Claim does not exist"}

\* ------------------------------------------- findAssertionIdFromReceipt
\* Line 159, contract.interface.parseLog(log) with the ABI of lines 6-15: a
\* log is parsed when its topic 0 is ClaimSubmitted's and its indexed
\* arguments are there; for any other log the call throws.
parseLog(log) ==
    IF Len(log.topics) = 3 /\ log.topics[1] = ClaimSubmittedTopic
    THEN [ thrown |-> FALSE, name |-> "ClaimSubmitted", assertionId |-> log.topics[2] ]
    ELSE [ thrown |-> TRUE, name |-> "", assertionId |-> Undefined ]

\* log.topics[i], counted from 0 as in the source; undefined past the end.
Topic(log, i) == IF i + 1 <= Len(log.topics) THEN log.topics[i + 1] ELSE Undefined

\* One loop that returns at the first log of either kind.
RECURSIVE ScanEither(_, _)
ScanEither(logs, i) ==
    IF i > Len(logs) THEN Null
    ELSE LET parsedLog == parseLog(logs[i])
         IN  IF ~parsedLog.thrown /\ parsedLog.name = "ClaimSubmitted"
             THEN parsedLog.assertionId
             ELSE IF Topic(logs[i], 0) = AssertionMadeTopic
             THEN Topic(logs[i], 1)
             ELSE ScanEither(logs, i + 1)

findAssertionIdFirstOfEither(logs) == ScanEither(logs, 1)

\* Lines 169-175: the second loop.
RECURSIVE ScanAssertionMade(_, _)
ScanAssertionMade(logs, i) ==
    IF i > Len(logs) THEN Null
    ELSE IF Topic(logs[i], 0) = AssertionMadeTopic
    THEN Topic(logs[i], 1)
    ELSE ScanAssertionMade(logs, i + 1)

\* Lines 157-166: the first loop; a log that cannot be parsed is skipped.
RECURSIVE ScanClaimSubmitted(_, _)
ScanClaimSubmitted(logs, i) ==
    IF i > Len(logs) THEN ScanAssertionMade(logs, 1)
    ELSE LET parsedLog == parseLog(logs[i])
         IN  IF ~parsedLog.thrown /\ parsedLog.name = "ClaimSubmitted"
             THEN parsedLog.assertionId
             ELSE ScanClaimSubmitted(logs, i + 1)

\* Lines 154-182.
findAssertionIdFromReceipt(logs) == ScanClaimSubmitted(logs, 1)

\* What lines 115 and 209 can get: the result for some receipt.
FoundIds == { findAssertionIdFromReceipt(logs) : logs \in Receipts }

\* if (id): null, undefined and '' are falsy.
Truthy(v) == v \notin {"", Null, Undefined}

\* ------------------------------------------------------------ the handlers
\* The part of every disabled attribute that the handlers do not repeat
\* (lines 377, 425, 448, 472, 480): no button can be clicked while loading.
\* The other part, an empty field, is the first test of each handler, and
\* the handlers are run on empty fields too.
Disabled(u) == u.loading

Idle(t) == tasks[t] = NoTask

\* A click on a button that is not disabled, while a slot is free.
Click ==
    /\ ~Disabled(ui)
    /\ \E t \in TaskIds : Idle(t)
    /\ clicks > 0
    /\ clicks' = clicks - 1

FreeSlot == CHOOSE t \in TaskIds : Idle(t) /\ \A o \in TaskIds : Idle(o) => t <= o
Spawn(task) == [tasks EXCEPT ![FreeSlot] = task]
End(t) == [tasks EXCEPT ![t] = NoTask]
Goto(t, pc) == [tasks EXCEPT ![t].pc = pc]

\* Line 72 testing the handle alone.
MissingInputHandleOnly(u) == u.twitterHandle = <<>>

\* Line 72.
MissingInput(u) == u.twitterHandle = <<>> \/ u.tweetText = ""

\* String.prototype.startsWith with a search string of one character, and
\* String.prototype.substring(start), whose positions count from 0.
startsWith(str, char) == Len(str) >= 1 /\ str[1] = char
substring(str, start) == SubSeq(str, start + 1, Len(str))

\* Lines 90-92.
cleanHandle(twitterHandle) ==
    IF startsWith(twitterHandle, "@") THEN substring(twitterHandle, 1)
                                      ELSE twitterHandle

\* Lines 97-99: the arguments of contract.submitClaim, from the values the
\* handler's closure holds.
submitClaimArgs(form) == << cleanHandle(form[1]), form[2] >>

\* Lines 245-246: checkClaimStatus up to its first await.
checkClaimStatusEnter(u) == [u EXCEPT !.loading = TRUE, !.error = ""]

\* Lines 296-298, and what the caller of a status check made inside another
\* handler runs after it: lines 341-345 and 357-359 after a settlement,
\* lines 357-359 after a failed settlement, lines 230-232 after a search.
checkClaimStatusLeave(u, task) ==
    LET left == [u EXCEPT !.loading = FALSE]
    IN  IF task.branch = "settled"
        THEN [left EXCEPT !.result = ResSettled, !.loading = FALSE]
        ELSE left

\* Lines 287-291 showing the failure.
assertionReadFailedShown(u) == [u EXCEPT !.error = MsgCheckError]

\* Lines 287-291: getAssertion failed.
assertionReadFailed(u) == [u EXCEPT !.canSettle = TRUE]

\* Lines 282-286: canBeSettled failed.
settleableReadFailed(u) == [u EXCEPT !.canSettle = TRUE]

\* Lines 347-356: the catch of settleClaim, up to its await or its end.
settleClaimCatch(u, message) ==
    IF message = "challenge period" THEN [u EXCEPT !.error = MsgTryLater]
    ELSE IF message = "already resolved"
    THEN checkClaimStatusEnter([u EXCEPT !.error = MsgAlreadyResolved])
    ELSE [u EXCEPT !.error = MsgSettleError]

\* --------------------------------------------------------- client actions
\* The user fills the form, once, before anything else is clicked.
onChange ==
    \E form \in Forms :
        /\ ~Disabled(ui)
        /\ ev.fn \in {"none", "useEffect"}
        /\ ui' = [ui EXCEPT !.twitterHandle = form[1], !.tweetText = form[2],
                            !.txHash = form[3], !.assertionId = form[4]]
        /\ ev' = Ev("onChange", "click", 0, "typed")
        /\ UNCHANGED <<tasks, clicks, registryVars>>

\* Lines 373-381: the Connect Wallet button.
connectWallet ==
    /\ Click /\ ~ui.walletConnected
    /\ tasks' = Spawn(Task("connectWallet", "connect", "", "none"))
    /\ ev' = Ev("connectWallet", "click", FreeSlot, "connect")
    /\ UNCHANGED <<ui, registryVars>>

\* Lines 68-83: submitClaim up to its first await.
AppSubmitClaim ==
    /\ Click
    /\ LET cleared == [ui EXCEPT !.error = "", !.result = Null]
           form == << ui.twitterHandle, ui.tweetText >>
       IN  IF MissingInput(ui)
           THEN /\ ui' = [cleared EXCEPT !.error = MsgBothFields]
                /\ ev' = Ev("submitClaim", "click", 0, "invalid")
                /\ UNCHANGED tasks
           ELSE IF ~ui.walletConnected
           THEN /\ ui' = cleared
                /\ tasks' = Spawn([Task("submitClaim", "connect", "", "none")
                                     EXCEPT !.form = form])
                /\ ev' = Ev("submitClaim", "click", FreeSlot, "connect")
           ELSE /\ ui' = [cleared EXCEPT !.loading = TRUE]
                /\ tasks' = Spawn([Task("submitClaim", "send", "", "none")
                                     EXCEPT !.form = form])
                /\ ev' = [Ev("submitClaim", "click", FreeSlot, "send")
                            EXCEPT !.args = submitClaimArgs(form)]
    /\ UNCHANGED registryVars

\* Lines 302-324: settleClaim up to its first await.
settleClaim ==
    /\ Click
    /\ IF ui.assertionId = ""
       THEN /\ ui' = [ui EXCEPT !.error = MsgEnterId]
            /\ ev' = Ev("settleClaim", "click", 0, "invalid")
            /\ UNCHANGED tasks
       ELSE IF ~ui.walletConnected
       THEN /\ tasks' = Spawn(Task("settleClaim", "connect", ui.assertionId, "none"))
            /\ ev' = Ev("settleClaim", "click", FreeSlot, "connect")
            /\ UNCHANGED ui
       ELSE /\ ui' = [ui EXCEPT !.loading = TRUE, !.error = ""]
            /\ tasks' = Spawn(Task("settleClaim", "send", ui.assertionId, "none"))
            /\ ev' = Ev("settleClaim", "click", FreeSlot, "send")
    /\ UNCHANGED registryVars

\* Lines 236-252 from the Check Status button (line 471).
checkClaimStatus ==
    /\ Click
    /\ IF ui.assertionId = ""
       THEN /\ ui' = [ui EXCEPT !.error = MsgEnterId]
            /\ ev' = Ev("checkClaimStatus", "click", 0, "invalid")
            /\ UNCHANGED tasks
       ELSE /\ ui' = checkClaimStatusEnter(ui)
            /\ tasks' = Spawn(Task("checkClaimStatus", "getClaimDetails",
                                   ui.assertionId, "none"))
            /\ ev' = Ev("checkClaimStatus", "click", FreeSlot, "getClaimDetails")
    /\ UNCHANGED registryVars

\* Lines 185-199: findAssertionIdFromTxHash up to its first await.
findAssertionIdFromTxHash ==
    /\ Click
    /\ IF ui.txHash = ""
       THEN /\ ui' = [ui EXCEPT !.error = MsgEnterTxHash]
            /\ ev' = Ev("findAssertionIdFromTxHash", "click", 0, "invalid")
            /\ UNCHANGED tasks
       ELSE /\ ui' = [ui EXCEPT !.loading = TRUE, !.error = ""]
            /\ tasks' = Spawn(Task("findAssertionIdFromTxHash",
                                   "getTransactionReceipt", "", "none"))
            /\ ev' = Ev("findAssertionIdFromTxHash", "click", FreeSlot,
                        "getTransactionReceipt")
    /\ UNCHANGED registryVars

\* Lines 36-51: eth_requestAccounts and getNetwork return.  The effect of
\* lines 363-367 calls connectWallet only when there is a wallet.
awaitRequestAccounts ==
    \E t \in TaskIds, reply \in WalletReplies :
        /\ tasks[t].pc = "connect"
        /\ ev' = Ev(tasks[t].fn, "connect", t, reply)
        /\ IF reply = "ok"
           THEN /\ ui' = [ui EXCEPT !.walletConnected = TRUE, !.error = ""]
                /\ tasks' = Goto(t, "getBalance")
           ELSE /\ tasks' = End(t)
                /\ ui' = IF reply = "wrong network"
                         THEN [ui EXCEPT !.error = MsgSepolia]
                         ELSE IF reply = "rejected"
                         THEN [ui EXCEPT !.error = MsgConnectFailed]
                         ELSE IF tasks[t].fn = "useEffect" THEN ui
                         ELSE [ui EXCEPT !.error = MsgNoMetaMask]
        /\ UNCHANGED <<clicks, registryVars>>

\* Lines 53-60: getBalance returns and connectWallet with it; on true the
\* caller goes on to its own first request (lines 82-97, 313-324).
awaitGetBalance ==
    \E t \in TaskIds, reply \in {"ok", "failed"} :
        /\ tasks[t].pc = "getBalance"
        /\ ev' = IF reply = "ok" /\ tasks[t].fn = "submitClaim"
                 THEN [Ev(tasks[t].fn, "getBalance", t, reply)
                         EXCEPT !.args = submitClaimArgs(tasks[t].form)]
                 ELSE Ev(tasks[t].fn, "getBalance", t, reply)
        /\ IF reply = "failed"
           THEN /\ ui' = [ui EXCEPT !.error = MsgConnectFailed]
                /\ tasks' = End(t)
           ELSE LET connected == [ui EXCEPT !.contractBalance = "balance"]
                IN  IF tasks[t].fn = "submitClaim"
                    THEN /\ ui' = [connected EXCEPT !.loading = TRUE]
                         /\ tasks' = Goto(t, "send")
                    ELSE IF tasks[t].fn = "settleClaim"
                    THEN /\ ui' = [connected EXCEPT !.loading = TRUE, !.error = ""]
                         /\ tasks' = Goto(t, "send")
                    ELSE /\ ui' = connected
                         /\ tasks' = End(t)
        /\ UNCHANGED <<clicks, registryVars>>

\* Lines 97-108 and 134-150: contract.submitClaim(...) returns the
\* transaction it has sent, or throws.
awaitSubmitClaim ==
    \E t \in TaskIds, reply \in {"sent", "failed"} :
        /\ tasks[t].fn = "submitClaim" /\ tasks[t].pc = "send"
        /\ ev' = Ev("submitClaim", "send", t, reply)
        /\ IF reply = "sent"
           THEN /\ ui' = [ui EXCEPT !.txHash = SentTxHash, !.result = ResSubmitted]
                /\ tasks' = Goto(t, "wait")
           ELSE /\ ui' = [ui EXCEPT !.error = MsgSubmitError, !.loading = FALSE]
                /\ tasks' = End(t)
        /\ UNCHANGED <<clicks, registryVars>>

\* Lines 111-150: tx.wait() returns a receipt, in which line 115 finds id,
\* or throws.
awaitSubmitClaimWait ==
    \E t \in TaskIds, reply \in {"receipt", "failed"} :
        /\ tasks[t].fn = "submitClaim" /\ tasks[t].pc = "wait"
        /\ tasks' = End(t)
        /\ IF reply = "failed"
           THEN /\ ui' = [ui EXCEPT !.error = MsgSubmitError, !.loading = FALSE]
                /\ ev' = Ev("submitClaim", "wait", t, reply)
           ELSE \E id \in FoundIds :
                    /\ ui' = IF Truthy(id)
                             THEN [ui EXCEPT !.assertionId = id,
                                             !.result = ResProcessed,
                                             !.loading = FALSE]
                             ELSE [ui EXCEPT !.result = ResProcessedNoId,
                                             !.loading = FALSE]
                    /\ ev' = [Ev("submitClaim", "wait", t, reply) EXCEPT !.found = id]
        /\ UNCHANGED <<clicks, registryVars>>

\* Lines 324-333 and 347-359: contract.settleAndGetAssertionResult(...)
\* returns the transaction it has sent, or throws.
awaitSettle ==
    \E t \in TaskIds, reply \in {"sent"} \cup SettleFailures :
        /\ tasks[t].fn = "settleClaim" /\ tasks[t].pc = "send"
        /\ ev' = Ev("settleClaim", "send", t, reply)
        /\ IF reply = "sent"
           THEN /\ ui' = [ui EXCEPT !.result = ResInitiated]
                /\ tasks' = Goto(t, "wait")
           ELSE IF reply = "already resolved"
           THEN /\ ui' = settleClaimCatch(ui, reply)
                /\ tasks' = [tasks EXCEPT ![t].pc = "getClaimDetails",
                                          ![t].branch = "resolved"]
           ELSE /\ ui' = [settleClaimCatch(ui, reply) EXCEPT !.loading = FALSE]
                /\ tasks' = End(t)
        /\ UNCHANGED <<clicks, registryVars>>

\* Lines 335-339 and 347-359: tx.wait() returns, or throws.
awaitSettleWait ==
    \E t \in TaskIds, reply \in {"mined"} \cup SettleFailures :
        /\ tasks[t].fn = "settleClaim" /\ tasks[t].pc = "wait"
        /\ ev' = Ev("settleClaim", "wait", t, reply)
        /\ IF reply = "mined"
           THEN /\ ui' = checkClaimStatusEnter(ui)
                /\ tasks' = [tasks EXCEPT ![t].pc = "getClaimDetails",
                                          ![t].branch = "settled"]
           ELSE IF reply = "already resolved"
           THEN /\ ui' = settleClaimCatch(ui, reply)
                /\ tasks' = [tasks EXCEPT ![t].pc = "getClaimDetails",
                                          ![t].branch = "resolved"]
           ELSE /\ ui' = [settleClaimCatch(ui, reply) EXCEPT !.loading = FALSE]
                /\ tasks' = End(t)
        /\ UNCHANGED <<clicks, registryVars>>

\* Lines 199-232: getTransactionReceipt returns a receipt, in which line 209
\* finds id, or null, or throws.
awaitGetTransactionReceipt ==
    \E t \in TaskIds, reply \in {"receipt", "null", "failed"} :
        /\ tasks[t].pc = "getTransactionReceipt"
        /\ IF reply # "receipt"
           THEN /\ ui' = [ui EXCEPT !.error = IF reply = "null" THEN MsgTxNotFound
                                                ELSE MsgFindError,
                                    !.loading = FALSE]
                /\ tasks' = End(t)
                /\ ev' = Ev("findAssertionIdFromTxHash", "getTransactionReceipt",
                            t, reply)
           ELSE \E id \in FoundIds :
                    /\ ev' = [Ev("findAssertionIdFromTxHash",
                                 "getTransactionReceipt", t, reply)
                                EXCEPT !.found = id]
                    /\ IF Truthy(id)
                       THEN /\ ui' = checkClaimStatusEnter(
                                        [ui EXCEPT !.assertionId = id,
                                                   !.result = ResFound])
                            /\ tasks' = [tasks EXCEPT ![t].pc = "getClaimDetails",
                                                      ![t].id = id,
                                                      ![t].branch = "found"]
                       ELSE /\ ui' = [ui EXCEPT !.error = MsgNoIdInLogs,
                                                !.loading = FALSE]
                            /\ tasks' = End(t)
        /\ UNCHANGED <<clicks, registryVars>>

\* Lines 252-261 and 293-298: getClaimDetails returns, or throws (NoStatus).
awaitGetClaimDetails ==
    \E t \in TaskIds, details \in {NoStatus} \cup ClaimDetails :
        /\ tasks[t].pc = "getClaimDetails"
        /\ ev' = Ev(tasks[t].fn, "getClaimDetails", t,
                    IF details = NoStatus THEN "failed" ELSE "details")
        /\ IF details = NoStatus
           THEN /\ ui' = checkClaimStatusLeave([ui EXCEPT !.error = MsgCheckError],
                                               tasks[t])
                /\ tasks' = End(t)
           ELSE /\ ui' = [ui EXCEPT !.claimStatus = details]
                /\ tasks' = Goto(t, "getAssertion")
        /\ UNCHANGED <<clicks, registryVars>>

\* Lines 265-276 and 287-298: getAssertion returns, or throws.
awaitGetAssertion ==
    \E t \in TaskIds, reply \in {"assertion", "failed"} :
        /\ tasks[t].pc = "getAssertion"
        /\ ev' = Ev(tasks[t].fn, "getAssertion", t, reply)
        /\ IF reply = "failed"
           THEN /\ ui' = checkClaimStatusLeave(assertionReadFailed(ui), tasks[t])
                /\ tasks' = End(t)
           ELSE /\ ui' = [ui EXCEPT !.assertionDetails = "assertion"]
                /\ tasks' = Goto(t, "canBeSettled")
        /\ UNCHANGED <<clicks, registryVars>>

\* Lines 280-286 and 296-298: canBeSettled returns, or throws.
awaitCanBeSettled ==
    \E t \in TaskIds, reply \in {"true", "false", "failed"} :
        /\ tasks[t].pc = "canBeSettled"
        /\ ev' = Ev(tasks[t].fn, "canBeSettled", t, reply)
        /\ ui' = checkClaimStatusLeave(
                    IF reply = "failed" THEN settleableReadFailed(ui)
                    ELSE [ui EXCEPT !.canSettle = (reply = "true")],
                    tasks[t])
        /\ tasks' = End(t)
        /\ UNCHANGED <<clicks, registryVars>>

ClientNext ==
    \/ onChange
    \/ connectWallet
    \/ AppSubmitClaim
    \/ settleClaim
    \/ checkClaimStatus
    \/ findAssertionIdFromTxHash
    \/ awaitRequestAccounts
    \/ awaitGetBalance
    \/ awaitSubmitClaim
    \/ awaitSubmitClaimWait
    \/ awaitSettle
    \/ awaitSettleWait
    \/ awaitGetTransactionReceipt
    \/ awaitGetClaimDetails
    \/ awaitGetAssertion
    \/ awaitCanBeSettled

ClientSpec == Init /\ [][ClientNext]_vars

\* The client with a click for every handler that can wait.
RaceInit == Loaded(MaxTasks)

RaceSpec == RaceInit /\ [][ClientNext]_vars

\* findAssertionIdFromReceipt applied, at its two call sites, to the receipts
\* of Receipts; ev keeps the receipt and what was found in it.
FoundIn(fn, logs) ==
    [NoEv EXCEPT !.fn = fn, !.at = "findAssertionIdFromReceipt",
                 !.reply = "receipt", !.logs = logs,
                 !.found = findAssertionIdFromReceipt(logs)]

\* Line 115.
findInSubmitClaim ==
    \E logs \in Receipts :
        /\ ev' = FoundIn("submitClaim", logs)
        /\ UNCHANGED <<ui, tasks, clicks, registryVars>>

\* Line 209.
findInFindAssertionIdFromTxHash ==
    \E logs \in Receipts :
        /\ ev' = FoundIn("findAssertionIdFromTxHash", logs)
        /\ UNCHANGED <<ui, tasks, clicks, registryVars>>

FindNext == findInSubmitClaim \/ findInFindAssertionIdFromTxHash

FindSpec == Init /\ [][FindNext]_vars

\* ======================================================= the deploy script
\* main() (src/frontend/src/App.js, lines 551-591) deploys the registry and
\* funds it with one transfer.  DeploySpec is the registry from the state
\* main() leaves, with no deposit after it.
\* parseEther("0.01") at line 575, in units of 0.001 ether.
fundAmount == 10
\* The rewards the funding is meant to cover (line 571: "0.1 ETH for 10
\* rewards").
FundedRewards == 10

\* Lines 556-582: a fresh registry that has received fundAmount.
main ==
    /\ claims = [id \in Bytes32 |-> EmptyClaim]
    /\ balance = fundAmount
    /\ deposits = fundAmount
    /\ oracle = [id \in Bytes32 |-> EmptyAssertion]
    /\ now = 0
    /\ tx = [NoTx EXCEPT !.op = "receive"]
    /\ returned = {}
    /\ rewards = [id \in Bytes32 |-> 0]
    /\ submitter = [id \in Bytes32 |-> ZeroAddress]
    /\ emitted = [id \in Bytes32 |-> [ submitted |-> FALSE, paid |-> 0 ]]
    /\ ui = FreshUi
    /\ tasks = OnLoad
    /\ ev = NoEv
    /\ clicks = MaxClicks

DeployNext ==
    \/ submitClaim
    \/ settleAndGetAssertionResult
    \/ oracleSettleAssertion
    \/ Tick

DeploySpec == main /\ [][DeployNext]_vars


\* ------------------------------------------------------------------ claims
IsSettleCall(t) == t.op = "settleAndGetAssertionResult"
IsSubmitCall(t) == t.op = "submitClaim"
Ledger == <<claims, balance, oracle>>
HasEvent(logs, name) == \E i \in 1..Len(logs) : logs[i].event = name

\* C1: over any sequence of submitClaim, settleAndGetAssertionResult and
\* deposit calls the reward is transferred at most once for each identifier,
\* and a settlement of an identifier whose claim is already rewarded moves no
\* funds, whatever the oracle answers.
C1_RewardAtMostOnce ==
    /\ [](\A id \in Bytes32 : rewards[id] <= 1)
    /\ [][ (IsSettleCall(tx') /\ claims[tx'.id].isRewarded)
             => (tx'.transfer = NoTransfer /\ balance' = balance
                 /\ rewards' = rewards) ]_vars

\* A committed settlement with a true oracle answer that paid nothing: the
\* claim was rewarded before the call.
C1_Witness ==
    /\ IsSettleCall(tx) /\ tx.status = "ok" /\ tx.oracleReply = "true"
    /\ tx.transfer = NoTransfer
    /\ rewards[tx.id] = 1

\* C2: a settlement of an existing, not yet rewarded claim with a true oracle
\* answer and a balance of at least REWARD_AMOUNT commits, sets isResolved and
\* isRewarded, makes isClaimVerified true, lowers the balance by exactly
\* REWARD_AMOUNT and emits RewardPaid carrying REWARD_AMOUNT.
C2_TrueSettlementPays ==
    [][ (/\ IsSettleCall(tx') /\ tx'.oracleReply = "true"
         /\ ClaimExists(claims[tx'.id]) /\ ~claims[tx'.id].isRewarded
         /\ balance >= REWARD_AMOUNT)
          => (/\ tx'.status = "ok" /\ tx'.ret = TRUE
              /\ claims'[tx'.id].isResolved
              /\ claims'[tx'.id].isRewarded
              /\ isClaimVerified(claims', tx'.id)
              /\ balance' = balance - REWARD_AMOUNT
              /\ \E i \in 1..Len(tx'.logs) :
                    tx'.logs[i] = RewardPaid(tx'.id, claims[tx'.id].claimer,
                                             REWARD_AMOUNT)) ]_vars

\* A settlement that paid.
C2_Witness ==
    /\ IsSettleCall(tx) /\ tx.status = "ok" /\ tx.oracleReply = "true"
    /\ tx.transfer # NoTransfer
    /\ isClaimVerified(claims, tx.id)

\* C3: a settlement of an existing claim with a false oracle answer commits,
\* sets isResolved, leaves isRewarded false and the balance as it was, leaves
\* isClaimVerified false, emits no RewardPaid and returns false.
C3_FalseSettlementPaysNothing ==
    [][ (IsSettleCall(tx') /\ tx'.oracleReply = "false")
          => (/\ ClaimExists(claims[tx'.id])
              /\ tx'.status = "ok" /\ tx'.ret = FALSE
              /\ claims'[tx'.id].isResolved
              /\ ~claims[tx'.id].isRewarded /\ ~claims'[tx'.id].isRewarded
              /\ ~isClaimVerified(claims', tx'.id)
              /\ balance' = balance
              /\ tx'.transfer = NoTransfer
              /\ ~HasEvent(tx'.logs, "RewardPaid")) ]_vars

\* A committed settlement with a false answer, with funds in the registry.
C3_Witness ==
    /\ IsSettleCall(tx) /\ tx.status = "ok" /\ tx.oracleReply = "false"
    /\ claims[tx.id].isResolved
    /\ balance >= REWARD_AMOUNT

\* C4: a settlement of an existing, not yet rewarded claim with a true oracle
\* answer and a balance below REWARD_AMOUNT fails as a whole: claims, balance
\* and oracle are as before the call and the receipt holds no log and no
\* transfer.  So no claim is ever resolved and unrewarded while its
\* settlement result is true.
C4_InsufficientBalanceReverts ==
    /\ [][ (/\ IsSettleCall(tx') /\ tx'.oracleReply = "true"
            /\ ClaimExists(claims[tx'.id]) /\ ~claims[tx'.id].isRewarded
            /\ balance < REWARD_AMOUNT)
             => (/\ tx'.status = "Insufficient contract balance"
                 /\ UNCHANGED Ledger
                 /\ UNCHANGED <<returned, rewards>>
                 /\ ~claims'[tx'.id].isResolved
                 /\ ~claims'[tx'.id].isRewarded
                 /\ tx'.logs = <<>>
                 /\ tx'.transfer = NoTransfer) ]_vars
    /\ [](\A id \in Bytes32 :
            (claims[id].isResolved /\ ~claims[id].isRewarded)
              => (oracle[id].settled /\ ~oracle[id].settlementResolution))

\* A settlement that failed for lack of funds while the registry held some.
C4_Witness ==
    /\ IsSettleCall(tx) /\ tx.status = "Insufficient contract balance"
    /\ balance > 0
    /\ ~claims[tx.id].isResolved

\* C5: a settlement of an identifier with no stored claim is rejected before
\* the oracle is called and changes no claim record and no balance.
C5_UnknownIdRejected ==
    [][ (IsSettleCall(tx') /\ claims[tx'.id].claimer = ZeroAddress)
          => (/\ tx'.status = "Claim does not exist"
              /\ tx'.oracleReply = "not called"
              /\ UNCHANGED Ledger
              /\ tx'.logs = <<>>
              /\ tx'.transfer = NoTransfer) ]_vars

\* A rejected settlement of an unknown identifier while another claim is stored.
C5_Witness ==
    /\ IsSettleCall(tx) /\ tx.status = "Claim does not exist"
    /\ tx.id # ZeroId
    /\ \E id \in Bytes32 : ClaimExists(claims[id])

\* C6: in every state and for every identifier, isRewarded implies isResolved.
C6_RewardedImpliesResolved ==
    \A id \in Bytes32 : claims[id].isRewarded => claims[id].isResolved

\* A rewarded claim.
C6_Witness ==
    \E id \in Bytes32 : claims[id].isRewarded /\ rewards[id] = 1


\* C7: in every state an identifier has a stored claim iff its claimer is
\* non-zero; for an identifier that no successful submitClaim returned,
\* getClaimDetails gives the zero claimer with both flags false and
\* canBeSettled is false.
C7_ExistsIffClaimerNonZero ==
    \A id \in Bytes32 :
        /\ (id \in returned) <=> (claims[id].claimer # ZeroAddress)
        /\ (id \in returned) <=> (claims[id] # EmptyClaim)
        /\ (id \notin returned) =>
              /\ getClaimDetails(claims, id)[1] = ZeroAddress
              /\ getClaimDetails(claims, id)[4] = FALSE
              /\ getClaimDetails(claims, id)[5] = FALSE
              /\ ~canBeSettled(claims, oracle, now, id)

\* One identifier has a claim that can be settled and another has none.
C7_Witness ==
    \E id, other \in AssertionIds :
        /\ id \in returned /\ canBeSettled(claims, oracle, now, id)
        /\ other \notin returned

\* C8: isClaimVerified(id) is true iff the claim is resolved and rewarded.  It
\* is false for an identifier never submitted and for a claim whose oracle
\* result is false; a stored claim has both flags false, and is not verified,
\* from its submission until the first settlement of it that commits.
C8_VerifiedIffResolvedAndRewarded ==
    /\ [](\A id \in Bytes32 :
            /\ isClaimVerified(claims, id)
                 <=> (claims[id].isResolved = TRUE /\ claims[id].isRewarded = TRUE)
            /\ (id \notin returned) => ~isClaimVerified(claims, id)
            /\ (oracle[id].settled /\ ~oracle[id].settlementResolution)
                 => ~isClaimVerified(claims, id))
    /\ [][ /\ (IsSubmitCall(tx') /\ tx'.status = "ok")
                => (/\ ~claims'[tx'.retId].isResolved
                    /\ ~claims'[tx'.retId].isRewarded
                    /\ ~isClaimVerified(claims', tx'.retId))
           /\ \A id \in Bytes32 :
                (\/ claims'[id].isResolved # claims[id].isResolved
                 \/ claims'[id].isRewarded # claims[id].isRewarded
                 \/ isClaimVerified(claims', id) # isClaimVerified(claims, id))
                  => (IsSettleCall(tx') /\ tx'.id = id /\ tx'.status = "ok") ]_vars

\* A claim settled with a false result beside a claim submitted and not settled.
C8_Witness ==
    \E id, other \in AssertionIds :
        /\ id \in returned /\ claims[id].isResolved /\ ~oracle[id].settlementResolution
        /\ ~isClaimVerified(claims, id)
        /\ other \in returned /\ ~claims[other].isResolved

C10_ClaimImmutable ==
    [][ \A id \in Bytes32 :
          ClaimExists(claims[id]) =>
            /\ claims'[id].claimer = claims[id].claimer
            /\ claims'[id].twitterHandle = claims[id].twitterHandle
            /\ claims'[id].tweetText = claims[id].tweetText
            /\ claims'[id].assertedClaim = claims[id].assertedClaim
            /\ claims'[id].assertionId = claims[id].assertionId
            /\ claims[id].isResolved => claims'[id].isResolved
            /\ claims[id].isRewarded => claims'[id].isRewarded ]_vars

\* A rewarded claim is still there after a later submitClaim by another account
\* with another handle and text.
C10_Witness ==
    /\ IsSubmitCall(tx) /\ tx.status = "ok"
    /\ \E id \in AssertionIds :
          /\ id # tx.retId
          /\ claims[id].isRewarded
          /\ claims[id].claimer # claims[tx.retId].claimer
          /\ claims[id].twitterHandle # claims[tx.retId].twitterHandle

\* C11: canBeSettled(id) is false for an identifier with no claim and for a
\* resolved claim; for any other claim it is true exactly when the oracle's
\* record of the assertion is not settled and the time has reached the
\* record's expirationTime.  So it is false at every time before the
\* expiration and whenever the oracle has marked the assertion settled.
C11_CanBeSettled ==
    \A id \in Bytes32 :
        /\ (claims[id].claimer = ZeroAddress) => ~canBeSettled(claims, oracle, now, id)
        /\ claims[id].isResolved => ~canBeSettled(claims, oracle, now, id)
        /\ (claims[id].claimer # ZeroAddress /\ ~claims[id].isResolved)
              => (canBeSettled(claims, oracle, now, id)
                    <=> (oracle[id].settled = FALSE
                         /\ now >= oracle[id].expirationTime))
        /\ (now < oracle[id].expirationTime) => ~canBeSettled(claims, oracle, now, id)
        /\ oracle[id].settled => ~canBeSettled(claims, oracle, now, id)

\* At its expiration time one claim can be settled, and another, expired and
\* unresolved too, cannot because the oracle has settled its assertion.
C11_Witness ==
    \E id, other \in AssertionIds :
        /\ canBeSettled(claims, oracle, now, id)
        /\ now = oracle[id].expirationTime
        /\ claims[other].claimer # ZeroAddress /\ ~claims[other].isResolved
        /\ oracle[other].settled /\ now >= oracle[other].expirationTime
        /\ ~canBeSettled(claims, oracle, now, other)

\* C12: whenever the registry pays, it pays REWARD_AMOUNT in a settlement that
\* commits, and to the account that called the submitClaim which returned the
\* settled identifier, whatever account sends the settlement; the balance
\* falls by what was transferred and never otherwise, so that no other
\* account receives funds from the registry.
C12_RewardGoesToSubmitter ==
    /\ [](\A id \in Bytes32 : claims[id].claimer = submitter[id])
    /\ [][ (tx'.transfer # NoTransfer)
              => (/\ IsSettleCall(tx') /\ tx'.status = "ok"
                  /\ submitter[tx'.id] \in Accounts
                  /\ tx'.transfer.to = submitter[tx'.id]
                  /\ tx'.transfer.amount = REWARD_AMOUNT
                  /\ balance' = balance - REWARD_AMOUNT) ]_vars
    /\ [][ (balance' < balance) => (tx'.transfer # NoTransfer) ]_vars

\* A settlement sent by one account has paid the reward to another, the one
\* that submitted the claim.
C12_Witness ==
    /\ IsSettleCall(tx) /\ tx.status = "ok"
    /\ tx.transfer = [to |-> submitter[tx.id], amount |-> REWARD_AMOUNT]
    /\ tx.sender \in Accounts
    /\ tx.sender # submitter[tx.id]

C14_OracleFailureFailsSubmission ==
    [][ (IsSubmitCall(tx') /\ tx'.oracleReply = "failed")
          => (/\ tx'.status # "ok"
              /\ tx'.retId = ZeroId
              /\ tx'.logs = <<>>
              /\ UNCHANGED Ledger
              /\ UNCHANGED <<returned, submitter>>) ]_vars

\* A submission has failed in the oracle while another claim is stored.
C14_Witness ==
    /\ IsSubmitCall(tx) /\ tx.oracleReply = "failed"
    /\ tx.status = "Oracle call failed"
    /\ returned # {}
    /\ \E id \in AssertionIds : claims[id].claimer # tx.sender /\ id \in returned

\* C15: after a settlement has failed for lack of balance, a deposit that
\* brings the balance to REWARD_AMOUNT or more leaves a state in which a new
\* settlement of the same identifier with a true oracle answer commits, pays
\* REWARD_AMOUNT to the claimer and sets isResolved and isRewarded.
C15_RetryAfterDeposit ==
    [][ (/\ IsSettleCall(tx) /\ tx.status = "Insufficient contract balance"
         /\ tx'.op = "receive"
         /\ balance' >= REWARD_AMOUNT)
          => LET retry == settleAndGetAssertionResultCall(claims', balance',
                                                          oracle', tx.id, "true")
             IN  /\ retry.status = "ok" /\ retry.ret = TRUE
                 /\ retry.transfer = [to |-> submitter[tx.id],
                                      amount |-> REWARD_AMOUNT]
                 /\ retry.balance = balance' - REWARD_AMOUNT
                 /\ retry.claims[tx.id].isResolved
                 /\ retry.claims[tx.id].isRewarded ]_vars

\* The settlement of one claim has failed for lack of balance after the
\* reward of another was paid, and one deposit of half a reward would bring
\* the balance to exactly REWARD_AMOUNT.
C15_Witness ==
    /\ IsSettleCall(tx) /\ tx.status = "Insufficient contract balance"
    /\ balance + REWARD_AMOUNT \div 2 = REWARD_AMOUNT
    /\ \E other \in AssertionIds : other # tx.id /\ rewards[other] = 1

\* ----------------------------------------------------------- client claims
\* A submit or settle handler whose transaction has been sent and is waited for.
Sent(t) == tasks[t].fn \in {"submitClaim", "settleClaim"} /\ tasks[t].pc = "wait"

\* The awaits of checkClaimStatus.
CheckPcs == {"getClaimDetails", "getAssertion", "canBeSettled"}

\* C16: a user action keeps the interface suspended from its start to its
\* end, so that, whatever the interleaving, no second submit or settle
\* transaction is sent while a sent one is still waited for.
C16_NoSecondTransaction ==
    \A t1, t2 \in TaskIds : (t1 # t2 /\ Sent(t1)) => ~Sent(t2)

\* C17: the submit handler run with an empty handle or an empty text shows
\* the validation error and stops: no handler is left waiting for the wallet
\* or for a transaction, and loading is not set.
C17_EmptyInputRejectedLocally ==
    [][ (/\ ev'.fn = "submitClaim" /\ ev'.at = "click"
         /\ (ui.twitterHandle = <<>> \/ ui.tweetText = ""))
          => (/\ ui'.error = MsgBothFields
              /\ tasks' = tasks
              /\ ~ui'.loading /\ ~ui.loading
              /\ ui'.walletConnected = ui.walletConnected
              /\ ui'.txHash = ui.txHash
              /\ ev'.reply = "invalid") ]_vars

\* The handler has rejected a form whose handle is filled and whose text is
\* empty, with the wallet not connected.
C17_Witness ==
    /\ ev.fn = "submitClaim" /\ ev.reply = "invalid"
    /\ ui.twitterHandle # <<>> /\ ui.tweetText = ""
    /\ ui.error = MsgBothFields
    /\ ~ui.walletConnected /\ ~ui.loading

\* C18: a settle handler that failed with a text containing "challenge
\* period" ends with the try-again-later message displayed; one that failed
\* with a text containing "already resolved" and has then fetched the claim
\* status anew ends with the already-resolved message displayed and the
\* fetched status shown.
C18_SettleFailureMessages ==
    [][ \A t \in TaskIds :
          /\ (ev' = Ev("settleClaim", tasks[t].pc, t, "challenge period"))
                => (ui'.error = MsgTryLater /\ tasks'[t] = NoTask)
          /\ (/\ tasks[t].fn = "settleClaim" /\ tasks[t].branch = "resolved"
              /\ tasks[t].pc \in {"getAssertion", "canBeSettled"}
              /\ tasks'[t] = NoTask)
                => (/\ ui'.error = MsgAlreadyResolved
                    /\ ui'.claimStatus.fetched) ]_vars

\* C19: findAssertionIdFromReceipt returns the assertionId of the first log
\* that parses as ClaimSubmitted; if there is none, topic 1 of the first log
\* whose topic 0 is the AssertionMade signature; if there is none either,
\* null.  It returns for every receipt, at both of its call sites.
C19_FindAssertionId ==
    (ev.at = "findAssertionIdFromReceipt") =>
        LET logs == ev.logs
            parsed == { i \in 1..Len(logs) : ~parseLog(logs[i]).thrown }
            made == { i \in 1..Len(logs) :
                        /\ Len(logs[i].topics) >= 1
                        /\ logs[i].topics[1] = AssertionMadeTopic }
            First(S) == CHOOSE i \in S : \A j \in S : i <= j
        IN  /\ ev.fn \in {"submitClaim", "findAssertionIdFromTxHash"}
            /\ ev.found \in LogIds \cup {Null, Undefined}
            /\ (parsed # {}) => (ev.found = logs[First(parsed)].topics[2])
            /\ (parsed = {} /\ made # {})
                  => (ev.found = IF Len(logs[First(made)].topics) >= 2
                                 THEN logs[First(made)].topics[2]
                                 ELSE Undefined)
            /\ (parsed = {} /\ made = {}) => (ev.found = Null)

\* In a receipt whose first log is an AssertionMade and whose second is a
\* ClaimSubmitted with another identifier, the second one's was found.
C19_Witness ==
    /\ ev.at = "findAssertionIdFromReceipt"
    /\ Len(ev.logs) = 2
    /\ ev.logs[1].topics = <<AssertionMadeTopic, "0x01">>
    /\ ev.logs[2].topics[1] = ClaimSubmittedTopic
    /\ ev.found = "0x02"

\* C20: in a status check whose getClaimDetails succeeded, a failure of
\* getAssertion or of canBeSettled ends the check with the fetched status
\* kept, no error set, canSettle true and loading false.  The check clears
\* the error when it starts, and of its awaited reads only a failed
\* getClaimDetails sets one.  However a check ends, loading is false.
C20_SecondaryReadFailureDegrades ==
    [][ \A t \in TaskIds :
          /\ (/\ tasks[t].pc \in {"getAssertion", "canBeSettled"}
              /\ ev' = Ev(tasks[t].fn, tasks[t].pc, t, "failed"))
                => (/\ ui.claimStatus.fetched
                    /\ ui'.claimStatus = ui.claimStatus
                    /\ ui'.error = ui.error
                    /\ ui'.canSettle = TRUE
                    /\ ui'.loading = FALSE
                    /\ tasks'[t] = NoTask)
          /\ (ev' = Ev("checkClaimStatus", "click", t, "getClaimDetails"))
                => (ui'.error = "" /\ ui'.loading)
          /\ (/\ tasks[t].pc \in CheckPcs /\ ev'.task = t /\ ev'.at = tasks[t].pc
              /\ ui'.error # ui.error)
                => (/\ ev'.at = "getClaimDetails" /\ ev'.reply = "failed"
                    /\ ui'.error = MsgCheckError)
          /\ (tasks[t].pc \in CheckPcs /\ tasks'[t] = NoTask)
                => ~ui'.loading ]_vars

\* A check from the Check Status button has ended on a failed getAssertion:
\* the status is shown, no error is, and the claim is offered for settlement.
C20_Witness ==
    /\ ev.fn = "checkClaimStatus" /\ ev.at = "getAssertion" /\ ev.reply = "failed"
    /\ ui.claimStatus.fetched
    /\ ui.error = ""
    /\ ui.canSettle
    /\ ~ui.loading

\* The claims the registry has rewarded.
Rewarded == { id \in Bytes32 : claims[id].isRewarded }

\* C21: the deployment script funds the registry for 10 rewards: after
\* deployment and with no further deposit, a settlement of an existing, not
\* yet rewarded claim with a true oracle answer, made while fewer than 10
\* claims have been rewarded, commits and pays REWARD_AMOUNT to the claimer.
C21_DeployFundsTenRewards ==
    [][ (/\ IsSettleCall(tx') /\ tx'.oracleReply = "true"
         /\ ClaimExists(claims[tx'.id]) /\ ~claims[tx'.id].isRewarded
         /\ Cardinality(Rewarded) < FundedRewards)
          => (/\ tx'.status = "ok"
              /\ tx'.transfer = [ to |-> claims[tx'.id].claimer,
                                  amount |-> REWARD_AMOUNT ]) ]_vars

\* C22: in every reachable state the registry balance is non-negative and
\* equals the sum of all deposits minus REWARD_AMOUNT for each claim with
\* isRewarded = true, so the number of rewarded claims never exceeds the
\* deposits divided by REWARD_AMOUNT.  (C22_Witness is the state in which
\* a true settlement of one identifier has made a true settlement of another
\* fail for insufficient balance.)
C22_BalanceAccounting ==
    /\ balance >= 0
    /\ balance = deposits - REWARD_AMOUNT * Cardinality(Rewarded)
    /\ Cardinality(Rewarded) <= deposits \div REWARD_AMOUNT

\* A settlement with a true answer has just failed for insufficient balance
\* while the claim of a different identifier is rewarded: the deposits
\* covered one reward and the other claim's payment used them up.
C22_Witness ==
    /\ IsSettleCall(tx) /\ tx.status = "Insufficient contract balance"
    /\ tx.oracleReply = "true"
    /\ \E other \in AssertionIds : other # tx.id /\ claims[other].isRewarded
    /\ deposits >= REWARD_AMOUNT
    /\ balance < REWARD_AMOUNT

\* C23: in every execution RewardPaid is emitted at most once for an
\* identifier, only after a ClaimSubmitted for the same identifier, and only
\* right after a ClaimResolved for that identifier with truthful = true
\* emitted in the same settlement call; and ClaimResolved is never emitted
\* for an identifier with no stored claim.
C23_EventOrder ==
    /\ [](\A id \in Bytes32 : emitted[id].paid <= 1)
    /\ [][ \A i \in 1..Len(tx'.logs) :
             tx'.logs[i].event = "RewardPaid"
               => (/\ emitted[tx'.logs[i].assertionId].submitted
                   /\ IsSettleCall(tx') /\ tx'.id = tx'.logs[i].assertionId
                   /\ i > 1
                   /\ tx'.logs[i - 1].event = "ClaimResolved"
                   /\ tx'.logs[i - 1].assertionId = tx'.logs[i].assertionId
                   /\ tx'.logs[i - 1].truthful = TRUE) ]_vars
    /\ [][ \A i \in 1..Len(tx'.logs) :
             tx'.logs[i].event = "ClaimResolved"
               => (/\ ClaimExists(claims[tx'.logs[i].assertionId])
                   /\ ClaimExists(claims'[tx'.logs[i].assertionId])) ]_vars

\* A settlement has emitted ClaimResolved(id, true) and then RewardPaid, and
\* a later settlement of the same claim has emitted ClaimResolved alone.
C23_Witness ==
    /\ IsSettleCall(tx) /\ tx.status = "ok"
    /\ emitted[tx.id].submitted /\ emitted[tx.id].paid = 1
    /\ tx.logs = << ClaimResolved(tx.id, TRUE) >>

\* C24: whatever handle and text the user has entered, the handle the client
\* passes to the registry's submitClaim is non-empty and does not start
\* with "@".
C24_PassedHandleClean ==
    (ev.args # <<>>)
      => (/\ Len(ev.args[1]) > 0
          /\ ev.args[1][1] # "@")

====
